---------------------------- MODULE Spec2Model ----------------------------
(***************************************************************************)
(* A model of parts of the Camelot library: the status history mechanism   *)
(* (camelot/model/type_and_status.py), the entity validator, the model     *)
(* thread test harness and get_application, the memento, the global        *)
(* settings, the virtual attributes of PartyAddress, the contact           *)
(* mechanisms of Party and PartyCategory (camelot/model/party.py) and      *)
(* update_database_from_model (camelot/core/sql.py).                       *)
(*                                                                         *)
(* Python's None is modelled by the empty sequence <<>> and a present      *)
(* value v by the one element sequence <<v>>.  Dates are integers (days).  *)
(***************************************************************************)
EXTENDS Integers, Sequences, FiniteSets, TLC

VARIABLES
    today,      \* datetime.date.today()
    status,     \* per entity object: the list `self.status` of status histories
    call,       \* the operation that ran last, its arguments and its result
    entities,   \* per entity class: the attributes Status.attach has set on it
    session,    \* per object: its state in the session, "none" without a session
    messages,   \* per object: the messages ObjectValidator has for its data
    threads,    \* the model threads constructed, the last one is the current one
    next_id,    \* the number of requests posted to the model threads
    executed,   \* the requests the model threads have run, in the order they finished
    handled,    \* the responses run in the GUI thread, in the order they ran
    editor,     \* the fields of the EmbeddedMany2OneEditor
    test,       \* where the test case is: torn down, set up, or blocked in process()
    memento_rows,       \* the rows of the memento table
    memento_log,        \* the changes given to register_changes so far
    memento_id_counter, \* the counter that gives each test its primary key
    settings,           \* the settings objects appended to camelot.core.conf.settings
    _application_,      \* the module's list that holds the QApplication
    QApplications,      \* the number of QApplication objects constructed so far
    app,                \* self.app of the test case
    party_address, \* the PartyAddress object: its address relation and its hidden attributes
    contact_mechanisms,  \* per party: the list party.contact_mechanisms
    parties, \* the list category.parties of the party category
    metadata,  \* the tables of the model, camelot.core.sql.metadata
    database  \* the tables of the database, as reflected from the connection

statusVars == <<today, status>>

attachVars == <<entities>>

validatorVars == <<session, messages>>

threadVars == <<threads, next_id, executed, handled, editor, test,
                _application_, QApplications, app>>

mementoVars == <<memento_rows, memento_log, memento_id_counter>>

settingsVars == <<settings>>

addressVars == <<party_address>>

partyVars == <<contact_mechanisms, parties>>

sqlVars == <<metadata, database>>

notStatus == <<attachVars, validatorVars, threadVars, mementoVars,
               settingsVars, addressVars, partyVars, sqlVars>>

notAttach == <<statusVars, validatorVars, threadVars, mementoVars,
               settingsVars, addressVars, partyVars, sqlVars>>

notValidator == <<statusVars, attachVars, threadVars, mementoVars,
                  settingsVars, addressVars, partyVars, sqlVars>>

notThread == <<statusVars, attachVars, validatorVars, mementoVars,
               settingsVars, addressVars, partyVars, sqlVars>>

notMemento == <<statusVars, attachVars, validatorVars, threadVars,
                settingsVars, addressVars, partyVars, sqlVars>>

notSettings == <<statusVars, attachVars, validatorVars, threadVars,
                 mementoVars, addressVars, partyVars, sqlVars>>

notAddress == <<statusVars, attachVars, validatorVars, threadVars,
                mementoVars, settingsVars, partyVars, sqlVars>>

notParty == <<statusVars, attachVars, validatorVars, threadVars, mementoVars,
              settingsVars, addressVars, sqlVars>>

notSql == <<statusVars, attachVars, validatorVars, threadVars, mementoVars,
            settingsVars, addressVars, partyVars>>

vars == <<today, status, call, entities, session, messages, threads, next_id,
          executed, handled, editor, test, _application_, QApplications, app,
          memento_rows, memento_log, memento_id_counter, settings,
          party_address, contact_mechanisms, parties, metadata, database>>

applicationVars == <<_application_, QApplications, app>>

None == <<>>

Some(v) == <<v>>

-----------------------------------------------------------------------------
(* Bounds *)

\* the last day the clock of the model reaches
MaxDay == 1

\* the number of status histories all objects have together
MaxHistories == 3

\* the number of test cases that are set up, each with its model thread
MaxThreads == 2

\* the number of requests the GUI thread posts to the model threads
MaxRequests == 3

\* the number of memento test cases that are set up
MaxTests == 2

\* the number of changes given to register_changes, in one call and in all
MaxChanges == 3

\* the most settings objects appended to the global settings
MaxSettings == 4

\* the most contact mechanisms of one party
MaxMechanisms == 2

\* the most contact mechanisms of the parties of a category together
MaxCategoryMechanisms == 4

-----------------------------------------------------------------------------
(* The status history of an entity *)

\* the objects of a selection; the first one is followed on its own
Objects == {"o1", "o2"}

Entity == {"o1"}

Statuses == {"draft", "ready"}

Days == 0..MaxDay

\* camelot.model.authentication.end_of_times : a date after every other date
end_of_times == MaxDay + 2

\* the values a caller passes as status_thru_date
ThruDates == {1, end_of_times}

\* StatusHistory( status_for, classified_by, status_from_date, status_thru_date,
\*                from_date, thru_date )
history_type(classified_by, status_from_date, status_thru_date, from_date, thru_date) ==
    [classified_by |-> classified_by,
     status_from_date |-> status_from_date,
     status_thru_date |-> status_thru_date,
     from_date |-> from_date,
     thru_date |-> thru_date]

\* status_history.status_from_date <= status_date and
\* status_history.status_thru_date >= status_date
ValidAt(status_history, status_date) ==
    /\ status_history.status_from_date <= status_date
    /\ status_history.status_thru_date >= status_date

\* `if status_date == None: status_date = datetime.date.today()`
DateOrToday(date) == IF date = None THEN today ELSE date[1]

\* get_status_history_at : the index in self.status of the first status
\* history valid at status_date, 0 for None
RECURSIVE FirstValidFrom(_, _, _)
FirstValidFrom(histories, status_date, i) ==
    IF i > Len(histories) THEN 0
    ELSE IF ValidAt(histories[i], status_date) THEN i
    ELSE FirstValidFrom(histories, status_date, i + 1)

\* get_status_history_at with `status_thru_date > status_date`
get_status_history_at_strict(histories, status_date) ==
    LET valid == {i \in 1..Len(histories) :
                    /\ histories[i].status_from_date <= DateOrToday(status_date)
                    /\ histories[i].status_thru_date > DateOrToday(status_date)}
    IN  IF valid = {} THEN 0 ELSE CHOOSE i \in valid : \A j \in valid : i <= j

get_status_history_at(histories, status_date) ==
    FirstValidFrom(histories, DateOrToday(status_date), 1)

\* current_status : classified_by of the status history valid today, or None
current_status(histories) ==
    LET status_history == get_status_history_at(histories, None)
    IN  IF status_history # 0 THEN Some(histories[status_history].classified_by)
        ELSE None

\* list.sort( key = from_date, reverse = ... ) as a stable insertion sort
RECURSIVE Insert(_, _, _)
Insert(sorted, h, reverse) ==
    IF sorted = <<>> THEN <<h>>
    ELSE IF (IF reverse THEN Head(sorted).from_date >= h.from_date
                        ELSE Head(sorted).from_date <= h.from_date)
         THEN <<Head(sorted)>> \o Insert(Tail(sorted), h, reverse)
         ELSE <<h>> \o sorted

RECURSIVE SortByFromDate(_, _)
SortByFromDate(histories, reverse) ==
    IF histories = <<>> THEN <<>>
    ELSE Insert(SortByFromDate(SubSeq(histories, 1, Len(histories) - 1), reverse),
                histories[Len(histories)], reverse)

\* get_status_from_date sorting in ascending order
get_status_from_date_ascending(histories, classified_by) ==
    LET status_histories == SelectSeq(histories, LAMBDA h : h.classified_by = classified_by)
    IN  IF Len(status_histories) # 0
        THEN Some(SortByFromDate(status_histories, FALSE)[1].from_date)
        ELSE None

get_status_from_date(histories, classified_by) ==
    LET status_histories == SelectSeq(histories, LAMBDA h : h.classified_by = classified_by)
    IN  IF Len(status_histories) # 0
        THEN Some(SortByFromDate(status_histories, TRUE)[1].from_date)
        ELSE None

\* old_status_query.filter( old_status_filter ) : the status histories of the
\* entity valid at status_from_date
OldStatuses(histories, status_from_date) ==
    {i \in 1..Len(histories) : ValidAt(histories[i], status_from_date)}

\* the effect of change_status on self.status, old_status being the status
\* history (0 for None) the query returned
change_status(histories, old_status, new_status, status_from_date, status_thru_date) ==
    LET closed == IF old_status # 0
                  THEN [histories EXCEPT ![old_status].thru_date = today - 1,
                                         ![old_status].status_thru_date = status_from_date - 1]
                  ELSE histories
    IN  Append(closed, history_type(new_status, status_from_date, status_thru_date,
                                    today, end_of_times))

\* .first() of a query without an order : any of the rows, None without rows
First(rows) == IF rows = {} THEN {0} ELSE rows

RECURSIVE TotalHistories(_)
TotalHistories(objs) ==
    IF objs = {} THEN 0
    ELSE LET o == CHOOSE x \in objs : TRUE
         IN  Len(status[o]) + TotalHistories(objs \ {o})

-----------------------------------------------------------------------------
(* Status.attach : the classes a Status property adds to an entity *)

\* strings are sequences of characters
Uppercase == <<"A", "B", "C", "D", "E", "F", "G", "H", "I", "J", "K", "L", "M",
               "N", "O", "P", "Q", "R", "S", "T", "U", "V", "W", "X", "Y", "Z">>

Lowercase == <<"a", "b", "c", "d", "e", "f", "g", "h", "i", "j", "k", "l", "m",
               "n", "o", "p", "q", "r", "s", "t", "u", "v", "w", "x", "y", "z">>

\* str.lower()
lower(str) ==
    [i \in 1..Len(str) |->
        IF \E k \in 1..Len(Uppercase) : Uppercase[k] = str[i]
        THEN Lowercase[CHOOSE k \in 1..Len(Uppercase) : Uppercase[k] = str[i]]
        ELSE str[i]]

\* the base class camelot.core.orm.Entity
EntityBase == <<"E", "n", "t", "i", "t", "y">>

\* entity.__name__ of the entity classes
EntityNames == {<<"J", "o", "b">>, <<"T", "a", "x">>}

\* the names a Status property is given in an entity class
PropertyNames == {<<"s", "t", "a", "t", "u", "s">>, <<"s", "t", "e", "p">>}

\* the enumeration parameter of Status : None, or a list of ( id, status )
Enumerations ==
    {None, Some(<<>>), Some(<<<<1, "draft">>, <<2, "ready">>>>)}

\* type( entity.__name__ + 'StatusType', ( StatusType, entity_base ),
\*       {'__tablename__' : status_type_name} )
StatusTypeClass(entity, status_type_name) ==
    [name |-> entity \o <<"S", "t", "a", "t", "u", "s", "T", "y", "p", "e">>,
     base |-> "StatusType",
     tablename |-> status_type_name,
     classified_by |-> None]

\* type( entity.__name__ + 'StatusHistory', ( StatusHistory, entity_base ),
\*       {'__tablename__' : status_name, 'classified_by' : ...} )
StatusHistoryClass(entity, status_name, classified_by) ==
    [name |-> entity \o <<"S", "t", "a", "t", "u", "s", "H", "i", "s", "t", "o", "r", "y">>,
     base |-> "StatusHistory",
     tablename |-> status_name,
     classified_by |-> Some(classified_by)]

\* Status.attach creating the StatusType whatever the enumeration is
attach_always_type(entity, name, enumeration) ==
    LET status_name == lower(entity) \o <<"_", "s", "t", "a", "t", "u", "s">>
        status_type_name == lower(entity) \o
            <<"_", "s", "t", "a", "t", "u", "s", "_", "t", "y", "p", "e">>
        status_type == StatusTypeClass(entity, status_type_name)
    IN  {[attr |-> <<"_">> \o name \o <<"_", "t", "y", "p", "e">>,
          class |-> status_type],
         [attr |-> <<"_">> \o name \o <<"_", "h", "i", "s", "t", "o", "r", "y">>,
          class |-> StatusHistoryClass(entity, status_name,
                        [relationship |-> status_type.name])]}

\* Status.attach( entity, name ) : the attributes it sets on the entity
\* ( setattr( entity, '_%s_type' % name, ... ), setattr( entity, '_%s_history' % name, ... ) )
attach(entity, name, enumeration) ==
    LET status_name == lower(entity) \o <<"_", "s", "t", "a", "t", "u", "s">>
        status_type_name == lower(entity) \o
            <<"_", "s", "t", "a", "t", "u", "s", "_", "t", "y", "p", "e">>
        status_type == StatusTypeClass(entity, status_type_name)
    IN  IF enumeration = None
        THEN {[attr |-> <<"_">> \o name \o <<"_", "t", "y", "p", "e">>,
               class |-> status_type],
              [attr |-> <<"_">> \o name \o <<"_", "h", "i", "s", "t", "o", "r", "y">>,
               class |-> StatusHistoryClass(entity, status_name,
                            [relationship |-> status_type.name])]}
        ELSE {[attr |-> <<"_">> \o name \o <<"_", "h", "i", "s", "t", "o", "r", "y">>,
               class |-> StatusHistoryClass(entity, status_name,
                            [column |-> "Enumeration", choices |-> enumeration[1]])]}

\* setattr( entity, attr, class ) for each of the attributes
SetAttrs(attrs, new) ==
    {a \in attrs : \A n \in new : n.attr # a.attr} \cup new

\* Status.attach( entity, name ), run when the entity class is made; a class
\* body holds one property of a name.  `assert entity != Entity` fails for a
\* Status property of the base class.
Attach ==
    \E entity \in EntityNames \cup {EntityBase}, name \in PropertyNames,
       enumeration \in Enumerations :
        IF entity # EntityBase
        THEN /\ \A a \in entities[entity] : a.property # name
             /\ entities' = [entities EXCEPT ![entity] =
                   SetAttrs(entities[entity],
                            {[attr |-> n.attr, class |-> n.class, property |-> name] :
                                 n \in attach(entity, name, enumeration)})]
             /\ call' = [op |-> "attach", entity |-> entity, name |-> name,
                         enumeration |-> enumeration, raised |-> FALSE]
             /\ UNCHANGED notAttach
        ELSE /\ call' = [op |-> "attach", entity |-> entity, name |-> name,
                         enumeration |-> enumeration, raised |-> TRUE]
             /\ UNCHANGED <<entities, notAttach>>

AttachIdle == entities = [entity \in EntityNames |-> {}]

-----------------------------------------------------------------------------
(* EntityValidator.validate_object *)

\* the messages the object validation has for the data of an object
Messages == {<<>>, <<"name is a required field">>,
             <<"name is a required field", "from date is a required field">>}

\* ObjectValidator.validate_object( obj )
ObjectValidator_validate_object(obj) == messages[obj]

\* validate_object without the test on session.deleted
validate_object_of_deleted(obj) ==
    IF session[obj] = "none" THEN [result |-> <<>>, validated |-> FALSE]
    ELSE [result |-> ObjectValidator_validate_object(obj), validated |-> TRUE]

\* EntityValidator.validate_object( obj ) : what it returns and whether the
\* validation of ObjectValidator ran
validate_object(obj) ==
    IF session[obj] = "none" THEN [result |-> <<>>, validated |-> FALSE]
    ELSE IF session[obj] = "deleted" THEN [result |-> <<>>, validated |-> FALSE]
    ELSE [result |-> ObjectValidator_validate_object(obj), validated |-> TRUE]

ValidateObject ==
    \E obj \in Objects :
        /\ call' = [op |-> "validate_object", obj |-> obj,
                    result |-> validate_object(obj).result,
                    validated |-> validate_object(obj).validated]
        /\ UNCHANGED <<validatorVars, notValidator>>

\* session.add( obj )
SessionAdd ==
    \E obj \in Objects :
        /\ session[obj] = "none"
        /\ session' = [session EXCEPT ![obj] = "pending"]
        /\ call' = [op |-> "add"]
        /\ UNCHANGED <<messages, notValidator>>

\* session.delete( obj ) : obj is in session.deleted until the flush
SessionDelete ==
    \E obj \in Objects :
        /\ session[obj] = "persistent"
        /\ session' = [session EXCEPT ![obj] = "deleted"]
        /\ call' = [op |-> "delete"]
        /\ UNCHANGED <<messages, notValidator>>

\* session.expunge( obj )
SessionExpunge ==
    \E obj \in Objects :
        /\ session[obj] # "none"
        /\ session' = [session EXCEPT ![obj] = "none"]
        /\ call' = [op |-> "expunge"]
        /\ UNCHANGED <<messages, notValidator>>

\* session.flush() : pending objects are persistent, deleted ones leave the session
SessionFlush ==
    /\ session' = [obj \in Objects |->
          IF session[obj] = "pending" THEN "persistent"
          ELSE IF session[obj] = "deleted" THEN "none"
          ELSE session[obj]]
    /\ call' = [op |-> "flush"]
    /\ UNCHANGED <<messages, notValidator>>

\* the user edits the data of an object
Edit ==
    \E obj \in Objects, msgs \in Messages :
        /\ messages' = [messages EXCEPT ![obj] = msgs]
        /\ call' = [op |-> "edit"]
        /\ UNCHANGED <<session, notValidator>>

ValidatorIdle ==
    /\ session = [obj \in Objects |-> "none"]
    /\ messages = [obj \in Objects |-> <<>>]

-----------------------------------------------------------------------------
(* The model thread *)

\* a ModelThread as constructed: not started, with an empty request queue and
\* an empty response queue
ModelThread ==
    [state |-> "new", starts |-> 0, request_queue |-> <<>>,
     response_queue |-> <<>>, running |-> {}]

\* get_model_thread() : the model thread constructed last
mt == Len(threads)

isAlive(thread) == thread.state = "alive"

start(thread) == [thread EXCEPT !.state = "alive", !.starts = @ + 1]

\* post( request, response ) : the request joins the request queue
post(thread, request) ==
    [thread EXCEPT !.request_queue = Append(@, request)]

Range(seq) == {seq[i] : i \in 1..Len(seq)}

\* the requests posted to a model thread so far
PostedTo(t) ==
    {r.id : r \in Range(threads[t].request_queue)}
        \cup {r.id : r \in threads[t].running}
        \cup {e.id : e \in {x \in Range(executed) : x.thread = t}}

\* what entity_instance_getter() returns
EntityValues == {None, Some("entity"), Some("ValueLoading")}

\* set_entity_instance() of setEntity, run as a request
set_entity_instance(ed, entity) ==
    IF entity = Some("ValueLoading")
    THEN [raised |-> TRUE, editor |-> ed, result |-> None]
    ELSE IF entity # None
    THEN [raised |-> FALSE, result |-> None,
          editor |-> [ed EXCEPT !.entity_instance_getter = entity]]
    ELSE [raised |-> FALSE, result |-> None,
          editor |-> [ed EXCEPT !.entity_instance_getter = Some("admin.entity()")]]

\* update_form( existing_entity ) of setEntity, run as a response: the form
\* is made on a collection of the instance self.entity_instance_getter gives
update_form(ed, existing_entity) ==
    [ed EXCEPT !.form = Some(ed.entity_instance_getter)]

\* setEntity updating the form at once instead of as the response
setEntity_at_once(id, entity_instance_getter, propagate) ==
    [post |-> [id |-> id, request |-> "set_entity_instance",
               arg |-> entity_instance_getter, response |-> "none",
               propagate |-> propagate],
     at_once |-> TRUE]

\* setEntity( entity_instance_getter, propagate ) :
\* self.admin.mt.post( set_entity_instance, update_form )
setEntity(id, entity_instance_getter, propagate) ==
    [post |-> [id |-> id, request |-> "set_entity_instance",
               arg |-> entity_instance_getter, response |-> "update_form",
               propagate |-> propagate],
     at_once |-> FALSE]

\* a request as the model thread runs it
run(request, ed) ==
    IF request.request = "set_entity_instance"
    THEN set_entity_instance(ed, request.arg)
    ELSE [raised |-> FALSE, editor |-> ed, result |-> None]

\* process_responses() : the responses of the queue run in their order
RECURSIVE RunResponses(_, _)
RunResponses(ed, queue) ==
    IF queue = <<>> THEN ed
    ELSE RunResponses(update_form(ed, Head(queue).result), Tail(queue))

Handled(queue) ==
    [i \in 1..Len(queue) |->
        [id |-> queue[i].id, result |-> queue[i].result,
         editingFinished |-> queue[i].propagate]]

\* process() after post_and_block, leaving the responses in their queue
process_events_skipped(ed, queue) ==
    [editor |-> ed, handled |-> <<>>, response_queue |-> queue]

\* process() after post_and_block : self.app.processEvents(),
\* self.mt.process_responses(), self.app.processEvents()
process_events(ed, queue) ==
    [editor |-> RunResponses(ed, queue), handled |-> Handled(queue),
     response_queue |-> <<>>]

\* setUp starting the model thread when it is alive
setUp_start_alive(thread) ==
    IF isAlive(thread) THEN start(thread) ELSE thread

\* `if not self.mt.isAlive(): self.mt.start()`
setUp_start(thread) ==
    IF ~isAlive(thread) THEN start(thread) ELSE thread

\* a get_application that constructs a QApplication at every call
get_application_anew(list, constructed) ==
    [list |-> Append(list, constructed + 1),
     constructed |-> constructed + 1,
     result |-> constructed + 1]

\* get_application() : a QApplication is constructed and appended when the
\* list is empty, the first element of the list is returned; a QApplication
\* is identified by its number in the order of construction
get_application(list, constructed) ==
    LET appended == IF Len(list) = 0
                    THEN Append(list, constructed + 1)
                    ELSE list
    IN  [list |-> appended,
         constructed |-> IF Len(list) = 0 THEN constructed + 1 ELSE constructed,
         result |-> appended[1]]

\* ModelThreadTestCase.setUp : self.app = get_application(),
\* construct_model_thread( rh ), get_model_thread() and the start of the thread
SetUp(max) ==
    /\ test.pc = "torn"
    /\ Len(threads) < max
    /\ threads' = Append(threads, setUp_start(ModelThread))
    /\ test' = [pc |-> "up"]
    /\ _application_' = get_application(_application_, QApplications).list
    /\ QApplications' = get_application(_application_, QApplications).constructed
    /\ app' = Some(get_application(_application_, QApplications).result)
    /\ call' = [op |-> "setUp"]
    /\ UNCHANGED <<next_id, executed, handled, editor, notThread>>

\* a call of get_application() outside of setUp
GetApplication ==
    /\ _application_' = get_application(_application_, QApplications).list
    /\ QApplications' = get_application(_application_, QApplications).constructed
    /\ call' = [op |-> "get_application",
                result |-> get_application(_application_, QApplications).result]
    /\ UNCHANGED <<threads, next_id, executed, handled, editor, test, app,
                   notThread>>

\* ModelThreadTestCase.tearDown : self.mt.exit() asks the model thread to exit
TearDown ==
    /\ test.pc = "up"
    /\ threads' = [threads EXCEPT ![mt] =
          post(@, [id |-> next_id + 1, request |-> "exit", arg |-> None,
                   response |-> "none", propagate |-> FALSE])]
    /\ next_id' = next_id + 1
    /\ test' = [pc |-> "torn"]
    /\ call' = [op |-> "tearDown"]
    /\ UNCHANGED <<executed, handled, editor, applicationVars, notThread>>

\* EmbeddedMany2OneEditor.setEntity, called in the GUI thread; __init__ calls
\* self.setEntity( lambda:None, propagate = False )
SetEntity(values, propagates) ==
    \E entity_instance_getter \in values, propagate \in propagates :
        LET posted == setEntity(next_id + 1, entity_instance_getter, propagate)
        IN  /\ test.pc = "up"
            /\ next_id < MaxRequests
            /\ threads' = [threads EXCEPT ![mt] = post(@, posted.post)]
            /\ next_id' = next_id + 1
            /\ IF posted.at_once
               THEN /\ editor' = update_form(editor, None)
                    /\ handled' = Append(handled,
                          [id |-> next_id + 1, result |-> None,
                           editingFinished |-> propagate])
               ELSE UNCHANGED <<editor, handled>>
            /\ call' = [op |-> "setEntity"]
            /\ UNCHANGED <<executed, test, applicationVars, notThread>>

\* the model thread takes the next request of its queue
WorkerTake(t) ==
    /\ t <= Len(threads)
    /\ isAlive(threads[t])
    /\ threads[t].running = {}
    /\ threads[t].request_queue # <<>>
    /\ threads' = [threads EXCEPT ![t].running = {Head(threads[t].request_queue)},
                                  ![t].request_queue = Tail(@)]
    /\ call' = [op |-> "run"]
    /\ UNCHANGED <<next_id, executed, handled, editor, test, applicationVars, notThread>>

\* the model thread has run the request: its result joins the response queue
\* with the response; the exit request ends the thread
WorkerFinish(t) ==
    /\ t <= Len(threads)
    /\ \E request \in threads[t].running :
        LET out == run(request, editor)
            responds == ~out.raised /\ request.response # "none"
        IN  /\ editor' = out.editor
            /\ executed' = Append(executed,
                  [id |-> request.id, thread |-> t, raised |-> out.raised,
                   result |-> out.result, responds |-> responds])
            /\ threads' = [threads EXCEPT
                  ![t].running = {},
                  ![t].state = IF request.request = "exit" THEN "exited" ELSE @,
                  ![t].response_queue =
                      IF responds
                      THEN Append(@, [id |-> request.id, result |-> out.result,
                                      response |-> request.response,
                                      propagate |-> request.propagate])
                      ELSE @]
    /\ call' = [op |-> "run"]
    /\ UNCHANGED <<next_id, handled, test, applicationVars, notThread>>

\* the event loop of the GUI thread runs the responses that are available
ProcessEvents ==
    /\ test.pc = "up"
    /\ threads[mt].response_queue # <<>>
    /\ editor' = RunResponses(editor, threads[mt].response_queue)
    /\ handled' = handled \o Handled(threads[mt].response_queue)
    /\ threads' = [threads EXCEPT ![mt].response_queue = <<>>]
    /\ call' = [op |-> "processEvents"]
    /\ UNCHANGED <<next_id, executed, test, applicationVars, notThread>>

\* ModelThreadTestCase.process, up to where post_and_block( lambda:None, 2 )
\* blocks the GUI thread
ProcessBegin ==
    /\ test.pc = "up"
    /\ next_id < MaxRequests
    /\ threads' = [threads EXCEPT ![mt] =
          post(@, [id |-> next_id + 1, request |-> "lambda:None", arg |-> None,
                   response |-> "none", propagate |-> FALSE])]
    /\ next_id' = next_id + 1
    /\ test' = [pc |-> "blocked", waiting |-> next_id + 1, before |-> PostedTo(mt)]
    /\ call' = [op |-> "post_and_block"]
    /\ UNCHANGED <<executed, handled, editor, applicationVars, notThread>>

\* ModelThreadTestCase.process, from where post_and_block returns : the
\* request it posted has run
ProcessEnd ==
    /\ test.pc = "blocked"
    /\ \E e \in Range(executed) : e.id = test.waiting
    /\ LET done == process_events(editor, threads[mt].response_queue)
       IN  /\ editor' = done.editor
           /\ handled' = handled \o done.handled
           /\ threads' = [threads EXCEPT ![mt].response_queue = done.response_queue]
    /\ test' = [pc |-> "up"]
    /\ call' = [op |-> "process", before |-> test.before]
    /\ UNCHANGED <<next_id, executed, applicationVars, notThread>>

ThreadIdle ==
    /\ threads = <<>>
    /\ next_id = 0
    /\ executed = <<>>
    /\ handled = <<>>
    /\ editor = [entity_instance_getter |-> None, form |-> None]
    /\ test = [pc |-> "torn"]
    /\ _application_ = <<>>
    /\ QApplications = 0
    /\ app = None

-----------------------------------------------------------------------------
(* The memento *)

\* camelot.core.memento.memento_types : ( id, name ) of the kinds of change
memento_types == <<<<1, "before_update">>, <<2, "before_delete">>, <<3, "create">>>>

\* the memento of the test set up with the standard types only
standard_memento_types == memento_types

\* custom_memento_types = memento_types + [(100, 'custom')] ;
\* self.memento = SqlMemento( memento_types = custom_memento_types )
custom_memento_types == memento_types \o <<<<100, "custom">>>>

\* self.model = 'TestMemento'
TestModel == Some("TestMemento")

\* memento_change( model, primary_key, previous_attributes, memento_type )
memento_change(model, primary_key, previous_attributes, memento_type) ==
    [model |-> model, primary_key |-> primary_key,
     previous_attributes |-> previous_attributes, memento_type |-> memento_type]

\* the changes the tests register: ( previous_attributes, memento_type )
TestChanges ==
    {<<None, Some("create")>>, <<Some("name:foo"), Some("before_update")>>,
     <<Some("name:bar"), Some("before_delete")>>, <<Some(""), Some("custom")>>}

\* sequences of at most n elements of a set
SeqsUpTo(set, n) == UNION {[1..k -> set] : k \in 1..n}

\* the id of a memento type of the memento, None for an unknown type
memento_id_by_type(types, memento_type) ==
    IF memento_type # None /\ \E i \in 1..Len(types) : types[i][2] = memento_type[1]
    THEN Some(types[CHOOSE i \in 1..Len(types) : types[i][2] = memento_type[1]][1])
    ELSE None

\* the rows SqlMemento.register_changes builds, one for each change
memento_rows_of(types, changes) ==
    [i \in 1..Len(changes) |->
        [model |-> changes[i].model,
         primary_key |-> changes[i].primary_key[1],
         previous_attributes |-> changes[i].previous_attributes,
         memento_type |-> memento_id_by_type(types, changes[i].memento_type)]]

\* clause.execute( rows ) : the database refuses a row without model or
\* without memento type
DatabaseError(new) ==
    \E i \in 1..Len(new) : new[i].model = None \/ new[i].memento_type = None

\* register_changes without its except clause : the error reaches the caller
raise_DatabaseError(error) == error

\* except exc.DatabaseError : the error is logged and not raised again
except_DatabaseError(error) == FALSE

\* SqlMemento.register_changes : one row for each change, inserted together;
\* the insert of a row without model or memento type fails and is logged
register_changes(table, types, changes) ==
    LET new == memento_rows_of(types, changes)
    IN  IF DatabaseError(new) THEN table ELSE table \o new

\* whether SqlMemento.register_changes raises an error to its caller
register_changes_raises(types, changes) ==
    except_DatabaseError(DatabaseError(memento_rows_of(types, changes)))

\* SqlMemento.get_changes( model, primary_key, current_attributes ) : one
\* change for each row of the model and the primary key
get_changes(table, model, primary_key, current_attributes) ==
    SelectSeq(table, LAMBDA row : row.model = model /\ row.primary_key = primary_key[1])

\* MementoCase.setUp : a memento with the custom type, a new primary key
MementoSetUp ==
    /\ memento_id_counter < MaxTests
    /\ memento_id_counter' = memento_id_counter + 1
    /\ call' = [op |-> "setUp"]
    /\ UNCHANGED <<memento_rows, memento_log, notMemento>>

\* self.memento.register_changes( memento_changes ), the changes being of
\* self.model and [self.id_counter]
RegisterChanges ==
    \E changes \in SeqsUpTo(TestChanges, MaxChanges) :
        LET memento_changes ==
                [i \in 1..Len(changes) |->
                    memento_change(TestModel, <<memento_id_counter>>,
                                   changes[i][1], changes[i][2])]
        IN  /\ memento_id_counter > 0
            /\ Len(memento_log) + Len(changes) <= MaxChanges
            /\ memento_rows' = register_changes(memento_rows, custom_memento_types,
                                                memento_changes)
            /\ memento_log' = memento_log \o memento_changes
            /\ call' = [op |-> "register_changes", changes |-> memento_changes,
                        raised |-> register_changes_raises(custom_memento_types,
                                                           memento_changes)]
            /\ UNCHANGED <<memento_id_counter, notMemento>>

\* MementoCase.test_no_error : self.memento.register_changes of one change
\* memento_change( None, [self.id_counter], None, None )
RegisterNoModel ==
    LET memento_changes ==
            <<memento_change(None, <<memento_id_counter>>, None, None)>>
    IN  /\ memento_id_counter > 0
        /\ Len(memento_log) + 1 <= MaxChanges
        /\ memento_rows' = register_changes(memento_rows, custom_memento_types,
                                            memento_changes)
        /\ memento_log' = memento_log \o memento_changes
        /\ call' = [op |-> "register_changes", changes |-> memento_changes,
                    raised |-> register_changes_raises(custom_memento_types,
                                                       memento_changes)]
        /\ UNCHANGED <<memento_id_counter, notMemento>>

\* list( self.memento.get_changes( self.model, [self.id_counter], {} ) )
GetChanges ==
    /\ memento_id_counter > 0
    /\ call' = [op |-> "get_changes", model |-> TestModel,
                primary_key |-> <<memento_id_counter>>,
                changes |-> get_changes(memento_rows, TestModel,
                                        <<memento_id_counter>>, Some(""))]
    /\ UNCHANGED <<mementoVars, notMemento>>

MementoIdle ==
    /\ memento_rows = <<>>
    /\ memento_log = <<>>
    /\ memento_id_counter = 0

-----------------------------------------------------------------------------
(* The global settings *)

\* the names of the attributes looked up in the settings
SettingNames == {"FOO", "CAMELOT_MEDIA_ROOT", "ENGINE"}

\* TestSettings() : CAMELOT_MEDIA_ROOT = 'media' and the method ENGINE
TestSettings == [CAMELOT_MEDIA_ROOT |-> "media", ENGINE |-> "engine"]

\* class AdditionalSettings( object ): FOO = True
AdditionalSettings == [FOO |-> "True"]

\* the objects the tests append to the settings
SettingsObjects == {TestSettings, AdditionalSettings}

\* the default values given to settings.get
Defaults == {None, Some("default")}

\* hasattr( obj, name ) of one settings object
defines(obj, name) == name \in DOMAIN obj

\* the settings objects that define the attribute
Defining(appended, name) ==
    {i \in 1..Len(appended) : defines(appended[i], name)}

\* a lookup that asks the settings object appended last only
getattr_of_last(appended, name) ==
    IF Len(appended) > 0 /\ defines(appended[Len(appended)], name)
    THEN [raised |-> None, value |-> Some(appended[Len(appended)][name])]
    ELSE [raised |-> Some("AttributeError"), value |-> None]

\* settings.__getattr__( name ) : the attribute of the settings object
\* appended last among those that define it, AttributeError without one
getattr(appended, name) ==
    LET defining == Defining(appended, name)
    IN  IF defining # {}
        THEN [raised |-> None,
              value |-> Some(appended[CHOOSE i \in defining :
                                        \A j \in defining : j <= i][name])]
        ELSE [raised |-> Some("AttributeError"), value |-> None]

\* settings.get( name, default ) : the attribute, the default when looking
\* it up raises AttributeError
get(appended, name, default) ==
    IF getattr(appended, name).raised = None
    THEN getattr(appended, name).value
    ELSE default

\* hasattr( settings, name ) : whether the lookup returns without error
hasattr(appended, name) == getattr(appended, name).raised = None

\* settings.append( obj )
SettingsAppend ==
    \E obj \in SettingsObjects :
        /\ Len(settings) < MaxSettings
        /\ settings' = Append(settings, obj)
        /\ call' = [op |-> "append", obj |-> obj]
        /\ UNCHANGED notSettings

\* settings.get( name, default )
SettingsGet ==
    \E name \in SettingNames, default \in Defaults :
        /\ call' = [op |-> "get", name |-> name, default |-> default,
                    result |-> get(settings, name, default)]
        /\ UNCHANGED <<settingsVars, notSettings>>

\* settings.FOO, settings.CAMELOT_MEDIA_ROOT
SettingsGetattr ==
    \E name \in SettingNames :
        /\ call' = [op |-> "getattr", name |-> name,
                    result |-> getattr(settings, name)]
        /\ UNCHANGED <<settingsVars, notSettings>>

\* hasattr( settings, name )
SettingsHasattr ==
    \E name \in SettingNames :
        /\ call' = [op |-> "hasattr", name |-> name,
                    result |-> hasattr(settings, name)]
        /\ UNCHANGED <<settingsVars, notSettings>>

\* the settings once the test package is imported :
\* settings.append( TestSettings() )
SettingsIdle == settings = <<TestSettings>>

-----------------------------------------------------------------------------
(* PartyAddress : the virtual attributes of the address *)

\* the virtual attributes, the names that start with 'address_'
VirtualAttributes == {"address_street1", "address_street2", "address_city"}

\* attr[len('address_'):]
address_attribute(attr) ==
    CASE attr = "address_street1" -> "street1"
      [] attr = "address_street2" -> "street2"
      [] attr = "address_city" -> "city"

\* '_address_' + attr[len('address_'):]
hidden_attribute(attr) ==
    CASE attr = "address_street1" -> "_address_street1"
      [] attr = "address_street2" -> "_address_street2"
      [] attr = "address_city" -> "_address_city"

\* the values given to the attributes of an address
AddressValues == {None, Some("a"), Some("b")}

\* Address( street1 = ..., city = ... )
Address(street1, street2, city) ==
    [street1 |-> street1, street2 |-> street2, city |-> city]

\* the Address objects
Addresses == {Address(s1, s2, c) : s1 \in AddressValues, s2 \in AddressValues,
                                   c \in AddressValues}

\* PartyAddress.__new__ : the hidden attributes are set to None
PartyAddress_new ==
    [address |-> None, _address_street1 |-> None, _address_street2 |-> None,
     _address_city |-> None]

\* a __getattr__ that reads the hidden attribute whatever the address is
getattr_hidden(self, attr) == self[hidden_attribute(attr)]

\* PartyAddress.__getattr__ of an attribute that starts with 'address_'
__getattr__(self, attr) ==
    IF self.address # None
    THEN self.address[1][address_attribute(attr)]
    ELSE self[hidden_attribute(attr)]

\* PartyAddress.__setattr__ of an attribute that starts with 'address_'
__setattr__(self, attr, value) ==
    LET hidden == [self EXCEPT ![hidden_attribute(attr)] = value]
    IN  IF hidden.address # None
        THEN [hidden EXCEPT !.address =
                 Some([hidden.address[1] EXCEPT ![address_attribute(attr)] = value])]
        ELSE IF hidden._address_street1 # None /\ hidden._address_city # None
             THEN [hidden EXCEPT !.address =
                      Some(Address(hidden._address_street1, None,
                                   hidden._address_city))]
             ELSE hidden

\* PartyAddress() : a new object takes the place of the one there was
PartyAddressNew ==
    /\ party_address' = PartyAddress_new
    /\ call' = [op |-> "__new__"]
    /\ UNCHANGED notAddress

\* party_address.address = address, the relation is set or removed
SetAddress ==
    \E address \in {None} \cup {Some(a) : a \in Addresses} :
        /\ party_address' = [party_address EXCEPT !.address = address]
        /\ call' = [op |-> "set_address", value |-> address]
        /\ UNCHANGED notAddress

\* party_address.address_street1 = value, and so for street2 and city
SetAttr ==
    \E attr \in VirtualAttributes, value \in AddressValues :
        /\ party_address' = __setattr__(party_address, attr, value)
        /\ call' = [op |-> "__setattr__", attr |-> attr, value |-> value]
        /\ UNCHANGED notAddress

\* party_address.address_street1, and so for street2 and city
GetAttr ==
    \E attr \in VirtualAttributes :
        /\ call' = [op |-> "__getattr__", attr |-> attr,
                    result |-> __getattr__(party_address, attr)]
        /\ UNCHANGED <<addressVars, notAddress>>

AddressIdle == party_address = PartyAddress_new

-----------------------------------------------------------------------------
(* Party : the contact mechanisms *)

\* the parties
Parties == {"p1", "p2"}

\* the party whose email, phone and fax are set and read
Party == {"p1"}

\* the types of virtual address of the properties email, phone and fax
MechanismTypes == {"email", "phone", "fax"}

\* the virtual addresses ( type, address ) of some types and addresses
VirtualAddresses(types, addresses) ==
    {Some(<<type, address>>) : type \in types, address \in addresses}

\* ContactMechanism( mechanism = value )
ContactMechanism(mechanism) == [mechanism |-> mechanism]

\* PartyContactMechanism( contact_mechanism = contact_mechanism )
PartyContactMechanism(contact_mechanism) ==
    [contact_mechanism |-> contact_mechanism]

\* the party contact mechanisms with one of the mechanisms, without a
\* mechanism value, or without contact mechanism
PartyContactMechanisms(mechanisms) ==
    {PartyContactMechanism(None), PartyContactMechanism(Some(ContactMechanism(None)))}
        \cup {PartyContactMechanism(Some(ContactMechanism(mechanism))) :
                 mechanism \in mechanisms}

\* contact_mechanism != None, mechanism != None and mechanism[0] == described_by
described(party_contact_mechanism, described_by) ==
    /\ party_contact_mechanism.contact_mechanism # None
    /\ party_contact_mechanism.contact_mechanism[1].mechanism # None
    /\ party_contact_mechanism.contact_mechanism[1].mechanism[1][1] = described_by

\* the place of the first party contact mechanism of the type in the list, 0
\* without one
first_described(list, described_by) ==
    LET places == {i \in 1..Len(list) : described(list[i], described_by)}
    IN  IF places = {} THEN 0
        ELSE CHOOSE i \in places : \A j \in places : i <= j

\* Party._get_contact_mechanism( described_by )
_get_contact_mechanism(list, described_by) ==
    IF first_described(list, described_by) = 0
    THEN None
    ELSE list[first_described(list, described_by)].contact_mechanism[1].mechanism

\* value and value[1]
has_address(value) == value # None /\ value[1][2] # ""

\* self.contact_mechanisms.remove( party_contact_mechanism )
remove(list, place) ==
    [i \in 1..(Len(list) - 1) |-> IF i < place THEN list[i] ELSE list[i + 1]]

\* a setter that appends a party contact mechanism and never looks for the
\* one that is there
_set_contact_mechanism_appending(list, described_by, value) ==
    IF has_address(value)
    THEN Append(list, PartyContactMechanism(Some(ContactMechanism(value))))
    ELSE list

\* Party._set_contact_mechanism( described_by, value )
_set_contact_mechanism(list, described_by, value) ==
    LET place == first_described(list, described_by)
    IN  IF place # 0
        THEN IF has_address(value)
             THEN [list EXCEPT ![place].contact_mechanism =
                      Some([list[place].contact_mechanism[1]
                               EXCEPT !.mechanism = value])]
             ELSE remove(list, place)
        ELSE IF has_address(value)
             THEN Append(list, PartyContactMechanism(Some(ContactMechanism(value))))
             ELSE list

\* the addresses of the type among the contact mechanisms of one party
addresses_of(list, virtual_address_type) ==
    LET yielding == SelectSeq(list, LAMBDA party_contact_mechanism :
                        described(party_contact_mechanism, virtual_address_type))
    IN  [i \in 1..Len(yielding) |-> yielding[i].contact_mechanism[1].mechanism[1][2]]

\* the addresses of the contact mechanisms of the parties, of whatever type
RECURSIVE get_all_contact_mechanisms(_, _, _)
get_all_contact_mechanisms(category, mechanisms, virtual_address_type) ==
    IF category = <<>>
    THEN <<>>
    ELSE LET with_mechanism ==
                 SelectSeq(mechanisms[Head(category)],
                           LAMBDA party_contact_mechanism :
                               \E type \in MechanismTypes :
                                   described(party_contact_mechanism, type))
         IN  [i \in 1..Len(with_mechanism) |->
                 with_mechanism[i].contact_mechanism[1].mechanism[1][2]]
             \o get_all_contact_mechanisms(Tail(category), mechanisms,
                                           virtual_address_type)

\* PartyCategory.get_contact_mechanisms( virtual_address_type ) : what the
\* generator yields, in the order it yields it
RECURSIVE get_contact_mechanisms(_, _, _)
get_contact_mechanisms(category, mechanisms, virtual_address_type) ==
    IF category = <<>>
    THEN <<>>
    ELSE addresses_of(mechanisms[Head(category)], virtual_address_type)
         \o get_contact_mechanisms(Tail(category), mechanisms,
                                   virtual_address_type)

\* the number of party contact mechanisms of some parties
RECURSIVE TotalMechanisms(_)
TotalMechanisms(some) ==
    IF some = {} THEN 0
    ELSE LET party == CHOOSE p \in some : TRUE
         IN  Len(contact_mechanisms[party]) + TotalMechanisms(some \ {party})

\* party.contact_mechanisms.append( PartyContactMechanism( ... ) ), as the
\* form of a party does
AppendContactMechanism(some, mechanisms, max) ==
    \E party \in some, new \in PartyContactMechanisms(mechanisms) :
        /\ Len(contact_mechanisms[party]) < MaxMechanisms
        /\ TotalMechanisms(some) < max
        /\ contact_mechanisms' =
               [contact_mechanisms EXCEPT ![party] = Append(@, new)]
        /\ call' = [op |-> "append", party |-> party]
        /\ UNCHANGED <<parties, notParty>>

\* party.email = value, party.phone = value, party.fax = value
SetContactMechanism(some) ==
    \E party \in some, described_by \in MechanismTypes,
       value \in {None} \cup VirtualAddresses(MechanismTypes, {"", "a", "b"}) :
        /\ \/ first_described(contact_mechanisms[party], described_by) # 0
           \/ Len(contact_mechanisms[party]) < MaxMechanisms
        /\ contact_mechanisms' =
               [contact_mechanisms EXCEPT ![party] =
                   _set_contact_mechanism(@, described_by, value)]
        /\ call' = [op |-> "_set_contact_mechanism", party |-> party,
                    described_by |-> described_by, value |-> value,
                    had |-> _get_contact_mechanism(contact_mechanisms[party],
                                                   described_by)]
        /\ UNCHANGED <<parties, notParty>>

\* party.email, party.phone, party.fax
GetContactMechanism(some) ==
    \E party \in some, described_by \in MechanismTypes :
        /\ call' = [op |-> "_get_contact_mechanism", party |-> party,
                    described_by |-> described_by,
                    result |-> _get_contact_mechanism(contact_mechanisms[party],
                                                      described_by)]
        /\ UNCHANGED <<partyVars, notParty>>

\* category.parties.append( party )
AppendParty ==
    \E party \in Parties :
        /\ party \notin Range(parties)
        /\ parties' = Append(parties, party)
        /\ call' = [op |-> "append_party", party |-> party]
        /\ UNCHANGED <<contact_mechanisms, notParty>>

\* list( category.get_contact_mechanisms( virtual_address_type ) )
GetContactMechanisms ==
    \E virtual_address_type \in MechanismTypes :
        /\ call' = [op |-> "get_contact_mechanisms",
                    virtual_address_type |-> virtual_address_type,
                    result |-> get_contact_mechanisms(parties, contact_mechanisms,
                                                      virtual_address_type)]
        /\ UNCHANGED <<partyVars, notParty>>

PartyIdle ==
    /\ contact_mechanisms = [party \in Parties |-> <<>>]
    /\ parties = <<>>

-----------------------------------------------------------------------------
(* update_database_from_model : the columns missing in the database *)

\* the names of the tables
TableNames == {"t1", "t2"}

\* the names of the columns
ColumnNames == {"a", "b", "c"}

\* the columns a table is given : three for one table, one for the other
Columns == [t1 |-> ColumnNames, t2 |-> {"a"}]

\* the types of the columns
ColumnTypes == {"Integer", "Unicode"}

\* the type of a column that a table does not have
NoColumn == "none"

\* the table without columns
EmptyTable == [column \in ColumnNames |-> NoColumn]

\* table.columns.keys()
column_names(table) == {column \in ColumnNames : table[column] # NoColumn}

\* metadata.tables.keys()
table_names(tables) == {table_name \in TableNames : tables[table_name] # None}

\* TableDiff.columns_missing_from_A : the columns found in B and not in A
columns_missing_from_A(A_table, B_table) ==
    column_names(B_table) \ column_names(A_table)

\* TableDiff.columns_missing_from_B : the columns found in A and not in B
columns_missing_from_B(A_table, B_table) ==
    column_names(A_table) \ column_names(B_table)

\* TableDiff.columns_different : the columns found in both with another type
columns_different(A_table, B_table) ==
    {column \in column_names(A_table) \cap column_names(B_table) :
        A_table[column] # B_table[column]}

\* SchemaDiff( A, B ).tables_different : the tables found in both A and B
\* that differ in their columns
tables_different(A, B) ==
    {table_name \in table_names(A) \cap table_names(B) :
        \/ columns_missing_from_A(A[table_name][1], B[table_name][1]) # {}
        \/ columns_missing_from_B(A[table_name][1], B[table_name][1]) # {}
        \/ columns_different(A[table_name][1], B[table_name][1]) # {}}

\* create_column( column, table ) for each of the columns : the columns of
\* the table of the model are added to the table of the database
create_columns(columns, table, database_table) ==
    [column \in ColumnNames |->
        IF column \in columns THEN table[column] ELSE database_table[column]]

\* an update that stops after the first column of each table
update_first_column_from_model(model, reflected) ==
    [table_name \in TableNames |->
        IF table_name \in tables_different(model, reflected)
        THEN LET missing == columns_missing_from_B(model[table_name][1],
                                                   reflected[table_name][1])
             IN  Some(create_columns(
                     IF missing = {} THEN {}
                     ELSE {CHOOSE column \in missing : TRUE},
                     model[table_name][1], reflected[table_name][1]))
        ELSE reflected[table_name]]

\* update_database_from_model() : the database after the loops over
\* schema_diff.tables_different and difference.columns_missing_from_B
update_database_from_model(model, reflected) ==
    [table_name \in TableNames |->
        IF table_name \in tables_different(model, reflected)
        THEN Some(create_columns(
                 columns_missing_from_B(model[table_name][1],
                                        reflected[table_name][1]),
                 model[table_name][1], reflected[table_name][1]))
        ELSE reflected[table_name]]

\* a column is declared in the model, with its table when that is new
DeclareColumn ==
    \E table_name \in TableNames, type \in ColumnTypes :
      \E column \in Columns[table_name] :
        LET table == IF metadata[table_name] = None
                     THEN EmptyTable
                     ELSE metadata[table_name][1]
        IN  /\ metadata' = [metadata EXCEPT ![table_name] =
                               Some([table EXCEPT ![column] = type])]
            /\ call' = [op |-> "declare", table_name |-> table_name]
            /\ UNCHANGED <<database, notSql>>

\* metadata.create_all() : the tables of the model that the database does
\* not have are created
CreateAll ==
    /\ database' = [table_name \in TableNames |->
                       IF database[table_name] = None
                       THEN metadata[table_name]
                       ELSE database[table_name]]
    /\ call' = [op |-> "create_all"]
    /\ UNCHANGED <<metadata, notSql>>

\* the database as it is found : a table or a column made by something else
\* than this model
AlterDatabase ==
    \E table_name \in TableNames, type \in ColumnTypes :
      \E column \in Columns[table_name] :
        LET table == IF database[table_name] = None
                     THEN EmptyTable
                     ELSE database[table_name][1]
        IN  /\ table[column] = NoColumn
            /\ database' = [database EXCEPT ![table_name] =
                               Some([table EXCEPT ![column] = type])]
            /\ call' = [op |-> "alter", table_name |-> table_name]
            /\ UNCHANGED <<metadata, notSql>>

\* update_database_from_model()
UpdateDatabaseFromModel ==
    /\ database' = update_database_from_model(metadata, database)
    /\ call' = [op |-> "update_database_from_model",
                tables_different |-> tables_different(metadata, database),
                created |-> {<<table_name, column>> \in TableNames \X ColumnNames :
                                /\ table_name \in tables_different(metadata, database)
                                /\ column \in columns_missing_from_B(
                                       metadata[table_name][1],
                                       database[table_name][1])}]
    /\ UNCHANGED <<metadata, notSql>>

SqlIdle ==
    /\ metadata = [table_name \in TableNames |-> None]
    /\ database = [table_name \in TableNames |-> None]

-----------------------------------------------------------------------------
(* Operations on the status *)

\* the clock: a day passes
Tick ==
    /\ today < MaxDay
    /\ today' = today + 1
    /\ call' = [op |-> "tick"]
    /\ UNCHANGED <<status, notStatus>>

\* obj.change_status( new_status, status_from_date, status_thru_date )
ChangeStatusCall(objs, thru_dates) ==
    \E obj \in objs, new_status \in Statuses,
       from_arg \in {None} \cup {Some(d) : d \in Days},
       status_thru_date \in thru_dates :
        LET status_from_date == DateOrToday(from_arg)
        IN  /\ TotalHistories(Objects) < MaxHistories
            /\ \E old_status \in First(OldStatuses(status[obj], status_from_date)) :
                 status' = [status EXCEPT ![obj] =
                    change_status(status[obj], old_status, new_status,
                                  status_from_date, status_thru_date)]
            /\ call' = [op |-> "change_status", obj |-> obj, new_status |-> new_status,
                        status_from_date |-> status_from_date,
                        status_thru_date |-> status_thru_date]
            /\ UNCHANGED <<today, notStatus>>

\* ChangeStatus( new_status ).model_run( model_context ) :
\* obj.change_status( self.new_status ) for every obj of the selection
ModelRun(objs) ==
    \E new_status \in Statuses, selection \in SUBSET objs :
        /\ TotalHistories(Objects) + Cardinality(selection) <= MaxHistories
        /\ \E old_status \in [selection -> 0..MaxHistories] :
            /\ \A obj \in selection :
                  old_status[obj] \in First(OldStatuses(status[obj], today))
            /\ status' = [obj \in Objects |->
                  IF obj \in selection
                  THEN change_status(status[obj], old_status[obj], new_status,
                                     today, end_of_times)
                  ELSE status[obj]]
        /\ call' = [op |-> "model_run", selection |-> selection, new_status |-> new_status]
        /\ UNCHANGED <<today, notStatus>>

\* obj.get_status_history_at( status_date )
GetStatusHistoryAt(objs) ==
    \E obj \in objs, status_date \in {None} \cup {Some(d) : d \in Days} :
        /\ call' = [op |-> "get_status_history_at", obj |-> obj,
                    status_date |-> status_date,
                    result |-> get_status_history_at(status[obj], status_date)]
        /\ UNCHANGED <<today, status, notStatus>>

\* obj.get_status_from_date( classified_by )
GetStatusFromDate(objs) ==
    \E obj \in objs, classified_by \in Statuses :
        /\ call' = [op |-> "get_status_from_date", obj |-> obj,
                    classified_by |-> classified_by,
                    result |-> get_status_from_date(status[obj], classified_by)]
        /\ UNCHANGED <<today, status, notStatus>>

StatusIdle ==
    /\ today = 0
    /\ status = [obj \in Objects |-> <<>>]

\* nothing has run yet: no status history, no Status property attached, no
\* object in a session, no model thread, an empty memento table
Init ==
    /\ call = [op |-> "init"]
    /\ StatusIdle
    /\ AttachIdle
    /\ ValidatorIdle
    /\ ThreadIdle
    /\ MementoIdle
    /\ SettingsIdle
    /\ AddressIdle
    /\ PartyIdle
    /\ SqlIdle

\* one entity, its status changes and the queries on its status
NextStatus ==
    \/ Tick
    \/ ChangeStatusCall(Entity, {end_of_times})
    \/ GetStatusHistoryAt(Entity)
    \/ GetStatusFromDate(Entity)

SpecStatus == Init /\ [][NextStatus]_vars

\* several objects, their status changes and the ChangeStatus action on a selection
NextAction ==
    \/ Tick
    \/ ChangeStatusCall(Objects, ThruDates)
    \/ ModelRun(Objects)

SpecAction == Init /\ [][NextAction]_vars

\* the entity classes of an application are made, with their Status properties
NextAttach == Attach

SpecAttach == Init /\ [][NextAttach]_vars

\* objects are edited, move through the session and are validated
NextValidator ==
    \/ SessionAdd
    \/ SessionDelete
    \/ SessionExpunge
    \/ SessionFlush
    \/ Edit
    \/ ValidateObject

SpecValidator == Init /\ [][NextValidator]_vars

\* one test case: its model thread, the editor posting to it and process()
NextThread ==
    \/ SetUp(1)
    \/ SetEntity(EntityValues, BOOLEAN)
    \/ WorkerTake(1)
    \/ WorkerFinish(1)
    \/ ProcessEvents
    \/ ProcessBegin
    \/ ProcessEnd

SpecThread == Init /\ [][NextThread]_vars

\* the memento test cases
NextMemento ==
    \/ MementoSetUp
    \/ RegisterChanges
    \/ RegisterNoModel
    \/ GetChanges

SpecMemento == Init /\ [][NextMemento]_vars

\* test cases set up and torn down one after the other; a thread that can
\* run does run
NextSetup ==
    \/ SetUp(MaxThreads)
    \/ TearDown
    \/ SetEntity({None}, {FALSE})
    \/ \E t \in 1..MaxThreads : WorkerTake(t)
    \/ \E t \in 1..MaxThreads : WorkerFinish(t)
    \/ ProcessEvents

SpecSetup ==
    /\ Init
    /\ [][NextSetup]_vars
    /\ \A t \in 1..MaxThreads : WF_vars(WorkerTake(t)) /\ WF_vars(WorkerFinish(t))

\* the lookups in the global settings and the appends to it
NextSettings ==
    \/ SettingsAppend
    \/ SettingsGet
    \/ SettingsGetattr
    \/ SettingsHasattr

SpecSettings == Init /\ [][NextSettings]_vars

\* test cases set up and torn down, and calls of get_application() between
NextApplication ==
    \/ GetApplication
    \/ NextSetup

SpecApplication == Init /\ [][NextApplication]_vars

\* the reads and writes of the attributes of one PartyAddress
NextAddress ==
    \/ PartyAddressNew
    \/ SetAddress
    \/ SetAttr
    \/ GetAttr

SpecAddress == Init /\ [][NextAddress]_vars

\* the parties of a category, their contact mechanisms and the messaging
NextCategory ==
    \/ AppendParty
    \/ AppendContactMechanism(Parties,
                              VirtualAddresses({"email"}, {"a", "b"})
                                  \cup VirtualAddresses({"phone"}, {"a"}),
                              MaxCategoryMechanisms)
    \/ GetContactMechanisms

SpecCategory == Init /\ [][NextCategory]_vars

\* the email, phone and fax of one party, set and read
NextParty ==
    \/ AppendContactMechanism(Party, VirtualAddresses(MechanismTypes, {"a", "b"}),
                              MaxMechanisms)
    \/ SetContactMechanism(Party)
    \/ GetContactMechanism(Party)

SpecParty == Init /\ [][NextParty]_vars

\* the model and the database change, the database is updated from the model
NextSql ==
    \/ DeclareColumn
    \/ CreateAll
    \/ AlterDatabase
    \/ UpdateDatabaseFromModel

SpecSql == Init /\ [][NextSql]_vars

-----------------------------------------------------------------------------
(* Properties of the status history *)

\* C1: change_status( new_status, status_from_date = d ) supersedes the prior
\* record: every status history of the entity that was valid at d before the
\* call has status_thru_date = d - 1 after it, and a new status history
\* classified by new_status with the interval [d, status_thru_date] exists.
C1_ChangeStatusSupersedes ==
    [][call'.op = "change_status" =>
        LET obj == call'.obj
            d == call'.status_from_date
        IN  /\ \A i \in 1..Len(status[obj]) :
                  (status[obj][i].status_from_date <= d /\ d <= status[obj][i].status_thru_date)
                    => status'[obj][i].status_thru_date = d - 1
            /\ \E j \in 1..Len(status'[obj]) :
                  /\ status'[obj][j].classified_by = call'.new_status
                  /\ status'[obj][j].status_from_date = d
                  /\ status'[obj][j].status_thru_date = call'.status_thru_date]_vars

\* C2: after ChangeStatus( new_status ).model_run, the current status of every
\* object of the selection is new_status.
C2_ModelRunSetsCurrentStatus ==
    call.op = "model_run" =>
        \A obj \in call.selection : current_status(status[obj]) = Some(call.new_status)

\* C3: get_status_history_at( status_date ) returns a status history of the
\* entity valid at status_date (today when status_date is None), and None
\* exactly when no status history of the entity is valid at that date.
C3_StatusHistoryAtIsValid ==
    call.op = "get_status_history_at" =>
        LET histories == status[call.obj]
            d == IF call.status_date = None THEN today ELSE call.status_date[1]
            valid == {i \in 1..Len(histories) :
                        /\ histories[i].status_from_date <= d
                        /\ d <= histories[i].status_thru_date}
        IN  /\ call.result # 0 => call.result \in valid
            /\ call.result = 0 <=> valid = {}

\* a status history was returned for today while the entity has another
\* status history that is not valid today
C3_Witness ==
    /\ call.op = "get_status_history_at"
    /\ call.status_date = None
    /\ call.result # 0
    /\ \E i \in 1..Len(status[call.obj]) :
          status[call.obj][i].status_thru_date < today

\* C4: get_status_from_date( classified_by ) returns the greatest from_date of
\* the status histories of the entity classified by classified_by, and None
\* when there is no such status history.
C4_StatusFromDateIsLast ==
    call.op = "get_status_from_date" =>
        LET histories == status[call.obj]
            same == {i \in 1..Len(histories) :
                        histories[i].classified_by = call.classified_by}
        IN  IF same = {} THEN call.result = None
            ELSE /\ call.result # None
                 /\ \E i \in same : histories[i].from_date = call.result[1]
                 /\ \A i \in same : histories[i].from_date <= call.result[1]

\* the status changed to classified_by on two different days, the last of
\* them is returned
C4_Witness ==
    /\ call.op = "get_status_from_date"
    /\ call.result # None
    /\ \E i, j \in 1..Len(status[call.obj]) :
          /\ status[call.obj][i].classified_by = call.classified_by
          /\ status[call.obj][j].classified_by = call.classified_by
          /\ status[call.obj][i].from_date < status[call.obj][j].from_date
          /\ status[call.obj][j].from_date = call.result[1]

-----------------------------------------------------------------------------
(* Properties of Status.attach *)

\* the table names of the entity classes, written out
StatusTable(entity) ==
    IF entity = <<"J", "o", "b">> THEN <<"j", "o", "b", "_", "s", "t", "a", "t", "u", "s">>
    ELSE <<"t", "a", "x", "_", "s", "t", "a", "t", "u", "s">>

\* C5: attaching a Status property to an entity always creates a StatusHistory
\* class, stored as _<name>_history with the table <entity>_status; a
\* StatusType class, stored as _<name>_type with the table
\* <entity>_status_type, is created if and only if no enumeration was given,
\* and with an enumeration classified_by is an Enumeration of its values.
C5_AttachCreatesClasses ==
    (call.op = "attach" /\ ~call.raised) =>
        LET attrs == {a \in entities[call.entity] : a.property = call.name}
            histories == {a \in attrs :
                a.attr = <<"_">> \o call.name \o <<"_", "h", "i", "s", "t", "o", "r", "y">>}
            types == {a \in attrs :
                a.attr = <<"_">> \o call.name \o <<"_", "t", "y", "p", "e">>}
        IN  /\ Cardinality(histories) = 1
            /\ \A h \in histories :
                  /\ h.class.base = "StatusHistory"
                  /\ h.class.tablename = StatusTable(call.entity)
                  /\ call.enumeration # None =>
                        h.class.classified_by =
                            Some([column |-> "Enumeration", choices |-> call.enumeration[1]])
            /\ \A t \in types :
                  /\ t.class.base = "StatusType"
                  /\ t.class.tablename = StatusTable(call.entity) \o <<"_", "t", "y", "p", "e">>
            /\ attrs = histories \cup types
            /\ types # {} <=> call.enumeration = None

\* an entity has a Status property with an enumeration and one without
C5_Witness ==
    /\ call.op = "attach"
    /\ ~call.raised
    /\ call.enumeration # None
    /\ \E a \in entities[call.entity] : a.class.base = "StatusType"
    /\ \E a \in entities[call.entity] :
          a.property = call.name /\ a.class.base = "StatusHistory"

-----------------------------------------------------------------------------
(* Properties of the entity validator *)

\* C6: validate_object( obj ) returns a list of messages, empty if the object
\* is valid; it returns the empty list without running the object validation
\* when obj has no session or is marked deleted in its session, and in every
\* other case exactly what ObjectValidator.validate_object returns.
C6_ValidateObject ==
    call.op = "validate_object" =>
        /\ call.result \in Messages
        /\ messages[call.obj] = <<>> => call.result = <<>>
        /\ IF session[call.obj] \in {"none", "deleted"}
           THEN call.result = <<>> /\ ~call.validated
           ELSE call.result = messages[call.obj] /\ call.validated

\* an object with invalid data, marked deleted, was validated
C6_Witness ==
    /\ call.op = "validate_object"
    /\ session[call.obj] = "deleted"
    /\ messages[call.obj] # <<>>
    /\ call.result = <<>>

-----------------------------------------------------------------------------
(* Properties of the model thread *)

\* C7: the requests posted to the model thread are run by its one worker, one
\* at a time and in the order they were posted, and the response of a request
\* runs in the GUI thread only after the request has finished, with its result.
C7_RequestsRunInOrder ==
    /\ \A t \in 1..Len(threads) : Cardinality(threads[t].running) <= 1
    /\ \A i, j \in 1..Len(executed) :
          (i < j /\ executed[i].thread = executed[j].thread)
            => executed[i].id < executed[j].id
    /\ \A i \in 1..Len(executed) :
          /\ \A r \in threads[executed[i].thread].running : executed[i].id < r.id
          /\ \A r \in Range(threads[executed[i].thread].request_queue) :
                executed[i].id < r.id
    /\ \A t \in 1..Len(threads) :
          \A r \in threads[t].running, q \in Range(threads[t].request_queue) : r.id < q.id
    /\ \A k \in 1..Len(handled) :
          \E i \in 1..Len(executed) :
              /\ executed[i].id = handled[k].id
              /\ ~executed[i].raised
              /\ executed[i].result = handled[k].result
    /\ editor.form # None => editor.form[1] # None

\* two responses have run while a later request is still in the queue
C7_Witness ==
    /\ Len(handled) >= 2
    /\ threads[1].request_queue # <<>>
    /\ editor.form # None

TornDown(t) ==
    /\ t <= Len(threads)
    /\ t < Len(threads) \/ test.pc = "torn"

\* model thread t has exited
Exited(t) == t <= Len(threads) /\ threads[t].state = "exited"

-----------------------------------------------------------------------------
(* Properties of the memento *)

-----------------------------------------------------------------------------
(* Properties of the global settings *)

-----------------------------------------------------------------------------
(* Properties of get_application *)

\* C13: get_application() returns the singleton QApplication: the first call
\* constructs one, every later call returns that same instance, and at most
\* one QApplication is ever constructed.
C13_SingletonApplication ==
    /\ QApplications <= 1
    /\ Len(_application_) = QApplications
    /\ call.op = "get_application" => call.result = 1 /\ QApplications = 1
    /\ app # None => app = Some(1) /\ QApplications = 1

\* get_application() was called after the set up of two test cases and
\* returned the QApplication constructed for the first one
C13_Witness ==
    /\ Len(threads) = 2
    /\ app = Some(1)
    /\ call.op = "get_application"
    /\ call.result = 1
    /\ QApplications = 1

-----------------------------------------------------------------------------
(* Properties of PartyAddress *)

\* C14: reading address_street1, address_street2 or address_city of a
\* PartyAddress returns the attribute of that name of the address relation
\* when an address is set, and the hidden attribute _address_street1,
\* _address_street2 or _address_city otherwise.
C14_VirtualAttributes ==
    call.op = "__getattr__" =>
        /\ party_address.address # None =>
             \/ call.attr = "address_street1"
                    /\ call.result = party_address.address[1].street1
             \/ call.attr = "address_street2"
                    /\ call.result = party_address.address[1].street2
             \/ call.attr = "address_city"
                    /\ call.result = party_address.address[1].city
        /\ party_address.address = None =>
             \/ call.attr = "address_street1"
                    /\ call.result = party_address._address_street1
             \/ call.attr = "address_street2"
                    /\ call.result = party_address._address_street2
             \/ call.attr = "address_city"
                    /\ call.result = party_address._address_city

\* the street of the address relation is read while the hidden attribute
\* holds another street
C14_Witness ==
    /\ call.op = "__getattr__"
    /\ call.attr = "address_street1"
    /\ party_address.address # None
    /\ party_address._address_street1 = Some("a")
    /\ call.result = Some("b")

-----------------------------------------------------------------------------
(* Properties of the contact mechanisms *)

\* the pairs ( party of the category, place in its contact mechanisms ) of
\* the contact mechanisms of a type and an address
Mechanisms(virtual_address_type, address) ==
    {<<k, i>> \in (1..Len(parties)) \X (1..MaxMechanisms) :
        /\ i <= Len(contact_mechanisms[parties[k]])
        /\ LET contact_mechanism ==
                   contact_mechanisms[parties[k]][i].contact_mechanism
           IN  /\ contact_mechanism # None
               /\ contact_mechanism[1].mechanism =
                      Some(<<virtual_address_type, address>>)}

\* C15: get_contact_mechanisms( virtual_address_type ) yields exactly the
\* addresses of the contact mechanisms of that type of the parties of the
\* category, each as often as there are such contact mechanisms, and nothing
\* for a party contact mechanism without contact mechanism or mechanism value.
C15_CategoryContactMechanisms ==
    call.op = "get_contact_mechanisms" =>
        \A address \in {"", "a", "b"} :
            Cardinality({i \in 1..Len(call.result) : call.result[i] = address})
                = Cardinality(Mechanisms(call.virtual_address_type, address))

\* the emails of a category of two parties are read, the parties have two
\* emails, a phone and a party contact mechanism without contact mechanism
C15_Witness ==
    /\ call.op = "get_contact_mechanisms"
    /\ call.virtual_address_type = "email"
    /\ Len(parties) = 2
    /\ Len(call.result) = 2
    /\ TotalMechanisms(Parties) = 4
    /\ \E party \in Parties : _get_contact_mechanism(contact_mechanisms[party], "phone") # None
    /\ \E party \in Parties :
           \E i \in 1..Len(contact_mechanisms[party]) :
               contact_mechanisms[party][i].contact_mechanism = None

-----------------------------------------------------------------------------
(* Properties of the email, phone and fax of a party *)

\* C17: for each type t of email, phone and fax and every value ( t, address )
\* with an address that is not empty, after _set_contact_mechanism( t, value )
\* _get_contact_mechanism( t ) returns the value, whether or not the party had
\* a contact mechanism of the type before.
C17_SetGetRoundTrip ==
    (/\ call.op = "_set_contact_mechanism"
     /\ call.value \in VirtualAddresses({call.described_by}, {"a", "b"}))
        => _get_contact_mechanism(contact_mechanisms[call.party],
                                  call.described_by) = call.value

\* the phone of a party that had an email and a phone was set to another
\* address
C17_Witness ==
    /\ call.op = "_set_contact_mechanism"
    /\ call.described_by = "phone"
    /\ call.had = Some(<<"phone", "a">>)
    /\ call.value = Some(<<"phone", "b">>)
    /\ Len(contact_mechanisms["p1"]) = 2
    /\ _get_contact_mechanism(contact_mechanisms["p1"], "email") # None

-----------------------------------------------------------------------------
(* Properties of update_database_from_model *)

\* C16: after update_database_from_model has run, every column of a table of
\* the model exists in the table of that name of the database, for the tables
\* that are both in the model and in the database; and no column that was in
\* the database is removed or altered.
C16_MissingColumnsAdded ==
    [][call'.op = "update_database_from_model" =>
          /\ \A table_name \in table_names(metadata) \cap table_names(database) :
                 /\ database'[table_name] # None
                 /\ column_names(metadata[table_name][1])
                        \subseteq column_names(database'[table_name][1])
          /\ \A table_name \in table_names(database) :
                 /\ database'[table_name] # None
                 /\ \A column \in column_names(database[table_name][1]) :
                        database'[table_name][1][column] =
                            database[table_name][1][column]]_vars

\* the update found both tables different and has created two columns in
\* one of them, while a column of the other one keeps a type that is not the
\* type the model gives it
C16_Witness ==
    /\ call.op = "update_database_from_model"
    /\ call.tables_different = TableNames
    /\ call.created = {<<"t1", "b">>, <<"t1", "c">>}
    /\ column_names(database["t1"][1]) = ColumnNames
    /\ columns_different(metadata["t2"][1], database["t2"][1]) # {}

-----------------------------------------------------------------------------
(* The validity intervals of the status histories *)

\* C18: after any sequence of change_status calls, with any status_from_date
\* and status_thru_date, the intervals [status_from_date, status_thru_date]
\* of the status histories of an entity do not overlap: at every date at most
\* one status history of the entity is valid.
C18_IntervalsDoNotOverlap ==
    \A obj \in Objects :
        \A status_date \in 0..end_of_times :
            Cardinality(OldStatuses(status[obj], status_date)) <= 1

=============================================================================
